---------------------------- MODULE Spec2Model ----------------------------
(***************************************************************************)
(* Accelerated Quantum Phase Estimation via rejection filtering (RFPE).    *)
(*                                                                         *)
(* The model follows src/src/utilities.h (the driver main, the experiment  *)
(* runAQPEviaRFPEExperiment, runQPECircuit, sampleFromRestrictedGaussian,  *)
(* doRFPE) and the argument parser getCommandLineArguments, whose source   *)
(* is the C text held in src/README.md.                                    *)
(*                                                                         *)
(* Numbers.  A C double that holds a phase is a fixed-point integer in     *)
(* units of pi/64 (so M_PI is 64).  The results of the inexact operations  *)
(* (random draws, sqrt) land on multiples of Quantum units; division by 2  *)
(* works on the units themselves, so - like the exponent decrement of a    *)
(* binary64 - it is exact as long as low-order bits remain.  NaN and       *)
(* -INFINITY are values of their own with the IEEE 754 rules: NaN          *)
(* propagates through arithmetic, every comparison with NaN is false,      *)
(* -inf * 0 and -inf - -inf are NaN.  Probabilities and likelihood weights *)
(* are in units of 1/ProbOne, logarithms in units of ln(2)/2, the circuit  *)
(* depth M in units of 1/MOne.                                             *)
(***************************************************************************)
EXTENDS Integers, Sequences, FiniteSets, TLC

(***************************************************************************)
(*                        The arithmetic of doubles                        *)
(***************************************************************************)
M_PI == 64
NaN == 100000
NegInf == -100000
Quantum == 4
MOne == 16
CosOne == 8
ProbOne == 2 * CosOne

IsNaN(x) == x = NaN
IsFinite(x) == x # NaN /\ x # NegInf

Abs(x) == IF x < 0 THEN -x ELSE x

\* a / b for b > 0, rounded to the nearest integer
RoundDiv(a, b) ==
    IF a >= 0 THEN (2 * a + b) \div (2 * b) ELSE -((2 * (-a) + b) \div (2 * b))

\* the C comparisons: false as soon as an operand is NaN
Less(a, b) == ~IsNaN(a) /\ ~IsNaN(b) /\ a < b
LessEq(a, b) == ~IsNaN(a) /\ ~IsNaN(b) /\ a <= b
Greater(a, b) == ~IsNaN(a) /\ ~IsNaN(b) /\ a > b

\* fabs
fabs(x) == IF IsNaN(x) THEN NaN ELSE Abs(x)

\* a + b; NegInf is the only infinity the program produces
AddD(a, b) ==
    IF IsNaN(a) \/ IsNaN(b) THEN NaN
    ELSE IF a = NegInf \/ b = NegInf THEN NegInf
    ELSE a + b

\* a - b, for b never +inf: -inf - -inf is NaN, and a finite a minus -inf
\* would be +inf, which no caller produces (b is a maximum over values
\* that include a)
SubD(a, b) ==
    IF IsNaN(a) \/ IsNaN(b) THEN NaN
    ELSE IF a = NegInf /\ b = NegInf THEN NaN
    ELSE IF a = NegInf THEN NegInf
    ELSE a - b

\* x * n for a count n >= 0 (a uint64_t converted to double): -inf * 0 is NaN
MulCount(x, n) ==
    IF IsNaN(x) THEN NaN
    ELSE IF x = NegInf THEN (IF n = 0 THEN NaN ELSE NegInf)
    ELSE x * n

\* x / n for a count n >= 0: 0.0 / 0 is NaN
DivCount(x, n) ==
    IF IsNaN(x) THEN NaN
    ELSE IF n = 0 THEN NaN
    ELSE RoundDiv(x, n)

\* x / 2
Half(x) == IF IsNaN(x) THEN NaN ELSE RoundDiv(x, 2)

\* sqrt(num / den) for den > 0, rounded to the nearest multiple of Quantum;
\* the square root of a negative number is NaN
SqrtRatio(num, den) ==
    IF num < 0 THEN NaN
    ELSE Quantum * (CHOOSE k \in 0..(M_PI \div Quantum) :
            /\ (k = 0 \/ (Quantum * (2 * k - 1)) * (Quantum * (2 * k - 1)) * den <= 4 * num)
            /\ (Quantum * (2 * k + 1)) * (Quantum * (2 * k + 1)) * den > 4 * num)

\* cos(k * pi / 16) * CosOne for k = 0..16
CosTable == <<8, 8, 7, 7, 6, 4, 3, 2, 0, -2, -3, -4, -6, -7, -7, -8, -8>>

\* cos(x) * CosOne for an angle of x units of pi/64: even, of period 2 pi
Cos(x) ==
    IF IsNaN(x) THEN NaN
    ELSE LET a == Abs(x) % (2 * M_PI)
             f == IF a > M_PI THEN 2 * M_PI - a ELSE a
         IN  CosTable[RoundDiv(f, 4) + 1]

\* log(q / ProbOne) in units of ln(2)/2 for q = 1..ProbOne
LogTable == <<-8, -6, -5, -4, -3, -3, -2, -2, -2, -1, -1, -1, -1, 0, 0, 0>>

\* log of a probability q in 0..ProbOne: log(0) is -inf
Log(q) ==
    IF IsNaN(q) THEN NaN
    ELSE IF q = 0 THEN NegInf
    ELSE LogTable[q]

\* exp(-l * ln(2)/2) * ProbOne for l = 0..9; it underflows to 0 below
ExpTable == <<16, 11, 8, 6, 4, 3, 2, 1, 1, 1>>

\* exp of a logarithm x <= 0: exp(-inf) is 0
Exp(x) ==
    IF IsNaN(x) THEN NaN
    ELSE IF x = NegInf \/ -x >= Len(ExpTable) THEN 0
    ELSE ExpTable[1 - x]

(***************************************************************************)
(*                     The functions of utilities.h                        *)
(***************************************************************************)
\* the enumeration of lines 118-122; the program allows 100 iterations, the
\* exploration is bounded to fewer
kMaxNumberOfIterations == 2
kPosteriorStandardDeviationIncreaseFactor == 1

\* 1 / pow(x, alpha) in units of 1/MOne, for alpha = alphaHalves / 2 in
\* {0, 1/2, 1} and x a phase taken in radians (one unit is pi/64, that is
\* 355 / (113 * 64) rad).  pow(x, 0) is 1 for every x, NaN included.
InversePow(x, alphaHalves) ==
    IF alphaHalves = 0 THEN MOne
    ELSE IF IsNaN(x) THEN NaN
    ELSE IF alphaHalves = 2 THEN RoundDiv(MOne * 113 * 64, 355 * x)
    ELSE CHOOSE k \in 0..(8 * MOne) :
            /\ (k = 0 \/ (2 * k - 1) * (2 * k - 1) * 355 * x
                            <= 4 * MOne * MOne * 113 * 64)
            /\ (2 * k + 1) * (2 * k + 1) * 355 * x > 4 * MOne * MOne * 113 * 64

\* calculateM
calculateM(standardDeviation, alphaHalves) ==
    IF standardDeviation = 0 THEN MOne
    ELSE InversePow(standardDeviation, alphaHalves)

\* a theta placed above the mean instead of below it
calculateThetaAbove(meanValue, standardDeviation) == AddD(meanValue, standardDeviation)

\* calculateTheta
calculateTheta(meanValue, standardDeviation) == SubD(meanValue, standardDeviation)

\* M * x for the depth M (units of 1/MOne) and a phase x
TimesM(M, x) ==
    IF IsNaN(M) \/ IsNaN(x) THEN NaN ELSE RoundDiv(M * x, MOne)

\* (1 + cos(M * (phi - theta))) / 2 in units of 1/ProbOne: the probability
\* of outcome 0 at phase phi (runQPECircuit line 191, doRFPE line 221)
EvidenceZeroProbability(phi, M, theta) ==
    LET c == Cos(TimesM(M, SubD(phi, theta)))
    IN  IF IsNaN(c) THEN NaN ELSE CosOne + c

\* 1 - q for a probability q
OneMinus(q) == IF IsNaN(q) THEN NaN ELSE ProbOne - q

\* the running maximum of doRFPE lines 227, 240-243 over L[1..n]: it starts
\* at -INFINITY and an entry replaces it only when it compares greater
\* a maximum that starts from 0 instead of -INFINITY
RECURSIVE MaxOfLogFromZero(_, _)
MaxOfLogFromZero(L, n) ==
    IF n = 0 THEN 0
    ELSE LET before == MaxOfLogFromZero(L, n - 1)
         IN IF Greater(L[n], before) THEN L[n] ELSE before

RECURSIVE MaxOfLog(_, _)
MaxOfLog(L, n) ==
    IF n = 0 THEN NegInf
    ELSE LET before == MaxOfLog(L, n - 1)
         IN  IF Greater(L[n], before) THEN L[n] ELSE before

\* one pass k of doRFPE lines 225-250: the log-probability of the evidence
\* class times its count is added to every entry, then the maximum of the
\* entries is subtracted from each
RecentrePass(L, logs, count) ==
    LET added == [i \in DOMAIN L |-> AddD(L[i], MulCount(logs[i], count))]
        maxOfLogEvidenceProbability == MaxOfLog(added, Len(added))
    IN  [i \in DOMAIN L |-> SubD(added[i], maxOfLogEvidenceProbability)]

\* doRFPE lines 219-250: logEvidenceProbabilityGivenPriorSamples after the
\* two passes
LogEvidenceProbability(priorSamples, evidenceSampleCounts, M, theta) ==
    LET q == [i \in DOMAIN priorSamples |->
                 EvidenceZeroProbability(priorSamples[i], M, theta)]
        zero == [i \in DOMAIN priorSamples |-> 0]
        pass0 == RecentrePass(zero, [i \in DOMAIN q |-> Log(q[i])],
                              evidenceSampleCounts[1])
    IN  RecentrePass(pass0, [i \in DOMAIN q |-> Log(OneMinus(q[i]))],
                     evidenceSampleCounts[2])

\* doRFPE lines 252-255: evidenceProbabilityGivenPriorSamples
EvidenceProbability(priorSamples, evidenceSampleCounts, M, theta) ==
    LET L == LogEvidenceProbability(priorSamples, evidenceSampleCounts, M, theta)
    IN  [i \in DOMAIN L |-> Exp(L[i])]

\* doRFPE lines 260-270: the indices accepted under the uniform draws
AcceptedSamples(weights, uniformSamples) ==
    {i \in DOMAIN weights : LessEq(uniformSamples[i], weights[i])}

RECURSIVE SumOver(_, _)
SumOver(f, S) ==
    IF S = {} THEN 0
    ELSE LET i == CHOOSE j \in S : TRUE
         IN  f[i] + SumOver(f, S \ {i})

\* doRFPE lines 272-281: the new belief from the number of accepted samples,
\* their sum and their sum of squares, and the deviation saved on entry
PosteriorMean(accepted, sum) ==
    IF accepted = 1 THEN sum ELSE DivCount(sum, accepted)

\* the deviation of the accepted samples themselves, whatever their number
PosteriorDeviationOfAcceptedSet(accepted, sum, sumOfSquares, currentStandardDeviation) ==
    IF accepted = 0 THEN NaN
    ELSE LET root == SqrtRatio(accepted * sumOfSquares - sum * sum, accepted * accepted)
         IN IF IsNaN(root) THEN NaN ELSE root * kPosteriorStandardDeviationIncreaseFactor

PosteriorDeviation(accepted, sum, sumOfSquares, currentStandardDeviation) ==
    IF accepted = 1 THEN Half(currentStandardDeviation)
    ELSE IF accepted = 0 THEN NaN
    ELSE LET root == SqrtRatio(accepted * sumOfSquares - sum * sum,
                               accepted * accepted)
         IN  IF IsNaN(root) THEN NaN
             ELSE root * kPosteriorStandardDeviationIncreaseFactor

\* doRFPE: the belief after one rejection-filter step
doRFPE(priorSamples, evidenceSampleCounts, standardDeviation, uniformSamples, M, theta) ==
    LET weights == EvidenceProbability(priorSamples, evidenceSampleCounts, M, theta)
        acc == AcceptedSamples(weights, uniformSamples)
        sum == SumOver(priorSamples, acc)
        sumOfSquares == SumOver([i \in DOMAIN priorSamples |->
                                    priorSamples[i] * priorSamples[i]], acc)
    IN  [meanValue |-> PosteriorMean(Cardinality(acc), sum),
         standardDeviation |-> PosteriorDeviation(Cardinality(acc), sum,
                                                  sumOfSquares, standardDeviation),
         numberOfAcceptedPriorSamples |-> Cardinality(acc)]

(***************************************************************************)
(*                 The driver: main and its experiments                    *)
(***************************************************************************)
VARIABLES
    \* main
    arguments, pc, mainI, estimatedPhi, convergenceIterationCount,
    averageNumberOfTotalIterations, averageDistanceFromTarget,
    wrongConvergenceCount, convergenceCount,
    \* runAQPEviaRFPEExperiment
    experimentI, meanValue, standardDeviation, convergenceAchieved,
    evidenceSampleCounts, priorSamples,
    \* the globals
    currentM, currentTheta,
    \* runQPECircuit
    circuitI, probabilityEvidence0GivenPhiPrior, uniformSample,
    \* sampleFromRestrictedGaussian
    numberOfValidSamples, gaussianSample,
    \* doRFPE
    numberOfAcceptedPriorSamples,
    \* history: the experiments that have returned, those that returned
    \* true, those that returned true with an estimate further than
    \* xSigmaValue * precision from the target, and the doRFPE calls of the
    \* running experiment
    experimentsReturned, returnedConverged, returnedWrong, filterCalls,
    \* getCommandLineArguments: the options of the command line, the index of
    \* the next one, the structure being filled, the local flag, the position
    \* in the function and the value returned
    argv, optind, parsed, userSpecifiedEvidenceNumber, parsePc, returnValue,
    \* the number printed as "Required Quantum Circuit Samples (N)" and, as
    \* history, the formula that gave it
    reportedSamples, reportFormula

argsVars == <<argv, optind, parsed, userSpecifiedEvidenceNumber, parsePc, returnValue,
              reportedSamples, reportFormula>>
mainVars == <<mainI, estimatedPhi, convergenceIterationCount,
              averageNumberOfTotalIterations, averageDistanceFromTarget,
              wrongConvergenceCount, convergenceCount>>
aggregates == <<averageNumberOfTotalIterations, averageDistanceFromTarget,
                wrongConvergenceCount, convergenceCount>>
beliefVars == <<meanValue, standardDeviation>>
experimentVars == <<experimentI, meanValue, standardDeviation, convergenceAchieved>>
circuitVars == <<circuitI, probabilityEvidence0GivenPhiPrior, uniformSample>>
samplerVars == <<numberOfValidSamples, gaussianSample>>
historyVars == <<experimentsReturned, returnedConverged, returnedWrong>>
driverVars == <<arguments, pc, mainVars, experimentVars, evidenceSampleCounts,
                priorSamples, currentM, currentTheta, circuitVars, samplerVars,
                numberOfAcceptedPriorSamples, historyVars, filterCalls>>
vars == <<driverVars, argsVars>>

\* main lines 372-380
initialMeanValue == 0
initialStandardDeviation == M_PI \div 2
xSigmaValue == 4

\* the numbers of evidence samples, of prior test samples and of repetitions
\* explored
EvidenceSampleNumbers == 0..2
PriorSampleNumbers == 1..2
RepetitionNumbers == 1..2

\* 1.0 rad in units of pi/64 (20.37), the largest precision accepted
kMaximumPrecision == 20
\* the precisions explored: pi/4 and 1.0
Precisions == {M_PI \div 4, kMaximumPrecision}
TargetPhis == {M_PI \div 2}
AlphaHalves == {0, 2}

\* what gsl_ran_flat(gslRNG, 0.0, 1.0) may return, in units of 1/ProbOne:
\* a value of [0, 1)
UniformDraws == {0, ProbOne \div 2, ProbOne - 1}

\* the values gsl_ran_gaussian(gslRNG, sigma) + mu is taken to reach when
\* sigma > 0: phases inside (-pi, pi) and outside
DrawValues == {-3 * (M_PI \div 4), -(M_PI \div 2), 0, M_PI \div 2, M_PI}

\* gsl_ran_gaussian(gslRNG, sigma) + mu: sigma times a standard normal
\* variate, plus mu
GaussianDraws(mu, sigma) ==
    IF IsNaN(mu) \/ IsNaN(sigma) THEN {NaN}
    ELSE IF sigma = 0 THEN {mu}
    ELSE DrawValues

\* the configurations getCommandLineArguments hands to main: the evidence
\* sample count is 0 only when it was computed from the precision 1.0
Configurations ==
    {c \in [targetPhi : TargetPhis, precision : Precisions, alpha : AlphaHalves,
            numberOfEvidenceSamplesPerIteration : EvidenceSampleNumbers,
            numberOfPriorTestSamplesPerIteration : PriorSampleNumbers,
            numberOfRepetitions : RepetitionNumbers] :
        c.numberOfEvidenceSamplesPerIteration = 0 => c.precision = kMaximumPrecision}

\* main lines 363-397: the state when the loop over the experiments starts.
\* estimatedPhi and convergenceIterationCount are not initialised; they are
\* written before they are read.
InitMain ==
    /\ pc = "main_for"
    /\ mainI = 0
    /\ estimatedPhi = 0
    /\ convergenceIterationCount = 0
    /\ averageNumberOfTotalIterations = 0
    /\ averageDistanceFromTarget = 0
    /\ wrongConvergenceCount = 0
    /\ convergenceCount = 0
    /\ experimentI = 0
    /\ meanValue = 0
    /\ standardDeviation = 0
    /\ convergenceAchieved = FALSE
    /\ evidenceSampleCounts = <<0, 0>>
    /\ priorSamples = <<>>
    /\ currentM = 0
    /\ currentTheta = 0
    /\ circuitI = 0
    /\ probabilityEvidence0GivenPhiPrior = 0
    /\ uniformSample = 0
    /\ numberOfValidSamples = 0
    /\ gaussianSample = 0
    /\ numberOfAcceptedPriorSamples = 0
    /\ experimentsReturned = 0
    /\ returnedConverged = 0
    /\ returnedWrong = 0
    /\ filterCalls = 0

\* getCommandLineArguments has returned 0
ArgumentsParsed ==
    /\ argv = <<>>
    /\ optind = 1
    /\ parsed = <<>>
    /\ userSpecifiedEvidenceNumber = FALSE
    /\ parsePc = "returned"
    /\ returnValue = 0
    /\ reportedSamples = <<>>
    /\ reportFormula = "none"

Init ==
    /\ arguments \in Configurations
    /\ InitMain
    /\ ArgumentsParsed

\* a guard that lets one more experiment run
MainLoopGuardInclusive(i, numberOfRepetitions) == i <= numberOfRepetitions

\* the guard of main's loop over the experiments, line 401
MainLoopGuard(i, numberOfRepetitions) == i < numberOfRepetitions

\* main line 401, loop entered; runAQPEviaRFPEExperiment lines 291-293
MainLoopEnter ==
    /\ pc = "main_for"
    /\ MainLoopGuard(mainI, arguments.numberOfRepetitions)
    /\ meanValue' = initialMeanValue
    /\ standardDeviation' = initialStandardDeviation
    /\ convergenceAchieved' = FALSE
    /\ experimentI' = 0
    /\ filterCalls' = 0
    /\ pc' = "exp_for"
    /\ UNCHANGED <<argsVars, arguments, mainVars, evidenceSampleCounts, priorSamples,
                   currentM, currentTheta, circuitVars, samplerVars,
                   numberOfAcceptedPriorSamples, historyVars>>

\* main line 401, loop left; lines 429-455
MainReport ==
    /\ pc = "main_for"
    /\ ~MainLoopGuard(mainI, arguments.numberOfRepetitions)
    /\ IF convergenceCount = 0
       THEN UNCHANGED <<averageNumberOfTotalIterations, averageDistanceFromTarget>>
       ELSE /\ averageNumberOfTotalIterations' =
                   DivCount(averageNumberOfTotalIterations, convergenceCount)
            /\ averageDistanceFromTarget' =
                   DivCount(averageDistanceFromTarget, convergenceCount)
    /\ pc' = "done"
    /\ UNCHANGED <<argsVars, arguments, mainI, estimatedPhi, convergenceIterationCount,
                   wrongConvergenceCount, convergenceCount, experimentVars,
                   evidenceSampleCounts, priorSamples, currentM, currentTheta,
                   circuitVars, samplerVars, numberOfAcceptedPriorSamples,
                   historyVars, filterCalls>>

\* runAQPEviaRFPEExperiment lines 311-316, loop entered: the circuit
\* parameters are recomputed and runQPECircuit is called (lines 191-192)
IterationBegin ==
    /\ pc = "exp_for"
    /\ experimentI < kMaxNumberOfIterations
    /\ currentM' = calculateM(standardDeviation, arguments.alpha)
    /\ currentTheta' = calculateTheta(meanValue, standardDeviation)
    /\ probabilityEvidence0GivenPhiPrior' =
           EvidenceZeroProbability(arguments.targetPhi, currentM', currentTheta')
    /\ evidenceSampleCounts' = <<0, evidenceSampleCounts[2]>>
    /\ circuitI' = 0
    /\ pc' = "qpe_for"
    /\ UNCHANGED <<argsVars, arguments, mainVars, experimentVars, priorSamples,
                   uniformSample, samplerVars, numberOfAcceptedPriorSamples,
                   historyVars, filterCalls>>

\* runAQPEviaRFPEExperiment line 311, loop left without convergence
IterationsExhausted ==
    /\ pc = "exp_for"
    /\ ~(experimentI < kMaxNumberOfIterations)
    /\ pc' = "exp_end"
    /\ UNCHANGED <<argsVars, arguments, mainVars, experimentVars, evidenceSampleCounts,
                   priorSamples, currentM, currentTheta, circuitVars,
                   samplerVars, numberOfAcceptedPriorSamples, historyVars,
                   filterCalls>>

\* an outcome that is 0 also when the draw equals the probability of 0
MeasuresZeroOrEqual(uniformDraw, probabilityOfZero) ==
    LessEq(uniformDraw, probabilityOfZero)

\* the outcome of one shot of the circuit, line 197: 0 is measured when the
\* uniform draw lies below the probability of 0
MeasuresZero(uniformDraw, probabilityOfZero) == Less(uniformDraw, probabilityOfZero)

\* runQPECircuit lines 194-201: one uniform draw
CircuitDraw ==
    /\ pc = "qpe_for"
    /\ circuitI < arguments.numberOfEvidenceSamplesPerIteration
    /\ \E u \in UniformDraws :
          /\ uniformSample' = u
          /\ evidenceSampleCounts' =
                 IF MeasuresZero(u, probabilityEvidence0GivenPhiPrior)
                 THEN <<evidenceSampleCounts[1] + 1, evidenceSampleCounts[2]>>
                 ELSE evidenceSampleCounts
    /\ circuitI' = circuitI + 1
    /\ UNCHANGED <<argsVars, arguments, pc, mainVars, experimentVars, priorSamples,
                   currentM, currentTheta, probabilityEvidence0GivenPhiPrior,
                   samplerVars, numberOfAcceptedPriorSamples, historyVars,
                   filterCalls>>

\* runQPECircuit lines 194, 202-204: the loop is left and the call returns;
\* sampleFromRestrictedGaussian is entered (lines 167-168).  The locals of
\* the call die with it.
CircuitReturn ==
    /\ pc = "qpe_for"
    /\ ~(circuitI < arguments.numberOfEvidenceSamplesPerIteration)
    /\ evidenceSampleCounts' =
           <<evidenceSampleCounts[1],
             arguments.numberOfEvidenceSamplesPerIteration - evidenceSampleCounts[1]>>
    /\ circuitI' = 0
    /\ probabilityEvidence0GivenPhiPrior' = 0
    /\ uniformSample' = 0
    /\ numberOfValidSamples' = 0
    /\ priorSamples' = <<>>
    /\ pc' = "sample_while"
    /\ UNCHANGED <<argsVars, arguments, mainVars, experimentVars, currentM, currentTheta,
                   gaussianSample, numberOfAcceptedPriorSamples, historyVars,
                   filterCalls>>

\* the guard of the sampler's loop, line 170
SamplerLoopGuard(valid, numberOfSamples) == valid < numberOfSamples

\* a restriction to the closed interval [-pi, pi]
InsideClosedRestriction(sample) == LessEq(fabs(sample), M_PI)

\* the test of a draw, line 174
InsideRestriction(sample) == Less(fabs(sample), M_PI)

\* sampleFromRestrictedGaussian lines 170-179: one draw, stored when it lies
\* inside (-pi, pi)
SamplerDraw ==
    /\ pc = "sample_while"
    /\ SamplerLoopGuard(numberOfValidSamples,
                        arguments.numberOfPriorTestSamplesPerIteration)
    /\ \E g \in GaussianDraws(meanValue, standardDeviation) :
          /\ gaussianSample' = g
          /\ IF InsideRestriction(g)
             THEN /\ priorSamples' = Append(priorSamples, g)
                  /\ numberOfValidSamples' = numberOfValidSamples + 1
             ELSE UNCHANGED <<priorSamples, numberOfValidSamples>>
    /\ UNCHANGED <<argsVars, arguments, pc, mainVars, experimentVars, evidenceSampleCounts,
                   currentM, currentTheta, circuitVars,
                   numberOfAcceptedPriorSamples, historyVars, filterCalls>>

\* sampleFromRestrictedGaussian lines 170, 181: the loop is left
SamplerReturn ==
    /\ pc = "sample_while"
    /\ ~SamplerLoopGuard(numberOfValidSamples,
                         arguments.numberOfPriorTestSamplesPerIteration)
    /\ gaussianSample' = 0
    /\ pc' = "rfpe"
    /\ UNCHANGED <<argsVars, arguments, mainVars, experimentVars, evidenceSampleCounts,
                   priorSamples, currentM, currentTheta, circuitVars,
                   numberOfValidSamples, numberOfAcceptedPriorSamples,
                   historyVars, filterCalls>>

\* runAQPEviaRFPEExperiment line 318: the call of doRFPE
FilterStep ==
    /\ pc = "rfpe"
    /\ \E u \in [1..Len(priorSamples) -> UniformDraws] :
          LET after == doRFPE(priorSamples, evidenceSampleCounts,
                              standardDeviation, u, currentM, currentTheta)
          IN  /\ meanValue' = after.meanValue
              /\ standardDeviation' = after.standardDeviation
              /\ numberOfAcceptedPriorSamples' = after.numberOfAcceptedPriorSamples
    /\ filterCalls' = filterCalls + 1
    /\ pc' = "exp_test"
    /\ UNCHANGED <<argsVars, arguments, mainVars, experimentI, convergenceAchieved,
                   evidenceSampleCounts, priorSamples, currentM, currentTheta,
                   circuitVars, samplerVars, historyVars>>

\* a test that also holds when the deviation equals the precision
ConvergenceTestOrEqual(deviation, precision) == LessEq(deviation, precision)

\* the convergence test, line 328
ConvergenceTest(deviation, precision) == Less(deviation, precision)

\* runAQPEviaRFPEExperiment lines 328-334: converged.  The samples and the
\* count of the accepted ones are dead once the filter has been tested.
Converged ==
    /\ pc = "exp_test"
    /\ ConvergenceTest(standardDeviation, arguments.precision)
    /\ estimatedPhi' = meanValue
    /\ convergenceIterationCount' = experimentI + 1
    /\ convergenceAchieved' = TRUE
    /\ numberOfAcceptedPriorSamples' = 0
    /\ priorSamples' = <<>>
    /\ pc' = "exp_end"
    /\ UNCHANGED <<argsVars, arguments, mainI, aggregates, experimentI, beliefVars,
                   evidenceSampleCounts, currentM, currentTheta,
                   circuitVars, samplerVars, historyVars, filterCalls>>

\* runAQPEviaRFPEExperiment lines 328, 311: not converged, the next iteration
NotConverged ==
    /\ pc = "exp_test"
    /\ ~ConvergenceTest(standardDeviation, arguments.precision)
    /\ experimentI' = experimentI + 1
    /\ numberOfAcceptedPriorSamples' = 0
    /\ priorSamples' = <<>>
    /\ pc' = "exp_for"
    /\ UNCHANGED <<argsVars, arguments, mainVars, beliefVars, convergenceAchieved,
                   evidenceSampleCounts, currentM, currentTheta,
                   circuitVars, samplerVars, historyVars, filterCalls>>

\* a test that also counts an estimate exactly xSigmaValue * precision away
WrongConvergenceOrEqual(targetPhi, estimate, precision) ==
    ~Less(fabs(SubD(targetPhi, estimate)), xSigmaValue * precision)

\* the test of a wrong convergence, main line 417
WrongConvergence(targetPhi, estimate, precision) ==
    Greater(fabs(SubD(targetPhi, estimate)), xSigmaValue * precision)

\* runAQPEviaRFPEExperiment lines 337-357: the experiment returns its
\* convergenceAchieved; its other locals die with the call
ExperimentReturn ==
    /\ pc = "exp_end"
    /\ experimentsReturned' = experimentsReturned + 1
    /\ returnedConverged' =
           returnedConverged + (IF convergenceAchieved THEN 1 ELSE 0)
    /\ returnedWrong' =
           returnedWrong +
           (IF convergenceAchieved
               /\ Abs(arguments.targetPhi - meanValue) > 4 * arguments.precision
            THEN 1 ELSE 0)
    /\ experimentI' = 0
    /\ meanValue' = 0
    /\ standardDeviation' = 0
    /\ evidenceSampleCounts' = <<0, 0>>
    /\ filterCalls' = 0
    /\ pc' = "main_if"
    /\ UNCHANGED <<argsVars, arguments, mainVars, convergenceAchieved, priorSamples,
                   currentM, currentTheta, circuitVars, samplerVars,
                   numberOfAcceptedPriorSamples>>

\* main lines 406-423, the experiment returned true
CountConverged ==
    /\ pc = "main_if"
    /\ convergenceAchieved
    /\ averageNumberOfTotalIterations' =
           averageNumberOfTotalIterations + convergenceIterationCount
    /\ averageDistanceFromTarget' =
           AddD(averageDistanceFromTarget,
                fabs(SubD(arguments.targetPhi, estimatedPhi)))
    /\ wrongConvergenceCount' =
           IF WrongConvergence(arguments.targetPhi, estimatedPhi, arguments.precision)
           THEN wrongConvergenceCount + 1
           ELSE wrongConvergenceCount
    /\ convergenceCount' = convergenceCount + 1
    /\ mainI' = mainI + 1
    /\ pc' = "main_for"
    /\ UNCHANGED <<argsVars, arguments, estimatedPhi, convergenceIterationCount,
                   experimentVars, evidenceSampleCounts, priorSamples, currentM,
                   currentTheta, circuitVars, samplerVars,
                   numberOfAcceptedPriorSamples, historyVars, filterCalls>>

\* main lines 406, 401, the experiment returned false
SkipNotConverged ==
    /\ pc = "main_if"
    /\ ~convergenceAchieved
    /\ mainI' = mainI + 1
    /\ pc' = "main_for"
    /\ UNCHANGED <<argsVars, arguments, estimatedPhi, convergenceIterationCount, aggregates,
                   experimentVars, evidenceSampleCounts, priorSamples, currentM,
                   currentTheta, circuitVars, samplerVars,
                   numberOfAcceptedPriorSamples, historyVars, filterCalls>>

Next ==
    \/ MainLoopEnter
    \/ MainReport
    \/ IterationBegin
    \/ IterationsExhausted
    \/ CircuitDraw
    \/ CircuitReturn
    \/ SamplerDraw
    \/ SamplerReturn
    \/ FilterStep
    \/ Converged
    \/ NotConverged
    \/ ExperimentReturn
    \/ CountConverged
    \/ SkipNotConverged

Spec == Init /\ [][Next]_vars

(***************************************************************************)
(*                      getCommandLineArguments                            *)
(*                                                                         *)
(* The counts of the structure are uint64_t and size_t values.  They are   *)
(* kept as natural numbers written in base Limb, least significant limb    *)
(* first and without leading zero limbs, so that 0 is the empty sequence.  *)
(* A precision is kept as its decimal exponent (e stands for 10^-e) and    *)
(* alpha as a number of halves, as in the driver.                          *)
(***************************************************************************)
Limb == 1000000
UINT64_MAX == <<551615, 73709, 446744, 18>>
TwoTo64 == <<551616, 73709, 446744, 18>>

\* a value of int, not negative, as a natural number
BigOfNat(n) ==
    IF n = 0 THEN <<>>
    ELSE IF n < Limb THEN <<n>>
    ELSE <<n % Limb, n \div Limb>>

RECURSIVE BigLess(_, _)
BigLess(a, b) ==
    IF Len(a) # Len(b) THEN Len(a) < Len(b)
    ELSE IF Len(a) = 0 THEN FALSE
    ELSE IF a[Len(a)] # b[Len(b)] THEN a[Len(a)] < b[Len(b)]
    ELSE BigLess(SubSeq(a, 1, Len(a) - 1), SubSeq(b, 1, Len(b) - 1))

RECURSIVE BigTimes(_, _, _)
BigTimes(a, factor, carry) ==
    IF a = <<>> THEN (IF carry = 0 THEN <<>> ELSE <<carry>>)
    ELSE LET product == Head(a) * factor + carry
         IN <<product % Limb>> \o BigTimes(Tail(a), factor, product \div Limb)

\* a - small for a >= small and small < Limb
RECURSIVE BigMinus(_, _)
BigMinus(a, small) ==
    IF small = 0 THEN a
    ELSE LET rest == IF Head(a) >= small THEN Tail(a) ELSE BigMinus(Tail(a), 1)
             low == IF Head(a) >= small THEN Head(a) - small
                    ELSE Head(a) + Limb - small
         IN IF rest = <<>> /\ low = 0 THEN <<>> ELSE <<low>> \o rest

RECURSIVE TenTo(_)
TenTo(k) == IF k = 0 THEN 1 ELSE 10 * TenTo(k - 1)

\* 10^k
BigPowerOfTen(k) == [i \in 1..(k \div 6) |-> 0] \o <<TenTo(k % 6)>>

\* the ranges of the options
kMinimumAlpha == 0
kMaximumAlpha == 2
kMinimumPhi == -M_PI
kMaximumPhi == M_PI
kMinimumPrecisionExponent == 10
kMaximumPrecisionExponent == 0
kMaximumNumberOfEvidenceSamples == BigOfNat(1000000)

\* the conversion of an int to size_t or uint64_t: a negative value wraps
ToUnsigned(n) == IF n >= 0 THEN BigOfNat(n) ELSE BigMinus(TwoTo64, -n)

\* ceil(4 * log(1 / precision)) for the precision 10^-e: the ceiling of
\* e * 9.2103...
LogSamplesTable == <<10, 19, 28, 37, 47, 56, 65, 74, 83, 93>>
LogSamples(e) == IF e = 0 THEN <<>> ELSE BigOfNat(LogSamplesTable[e])

\* ceil((2 / (1 - alpha)) * (1 / pow(precision, 2 * (1 - alpha)) - 1)) for
\* alpha < 1: with alpha = h / 2 it is (4 / (2 - h)) * (10^(e * (2 - h)) - 1)
PowerSamples(e, h) ==
    BigTimes(BigMinus(BigPowerOfTen(e * (2 - h)), 1), 4 \div (2 - h), 0)

\* the value of the double that lines 272 and 276 convert
RequiredSamples(e, h) == IF h = 2 THEN LogSamples(e) ELSE PowerSamples(e, h)

\* the conversion (uint64_t) of a double: the value when it fits; the
\* behaviour is undefined otherwise, and builds give 0 or UINT64_MAX
ConvertToUint64(value) ==
    IF BigLess(UINT64_MAX, value) THEN {<<>>, UINT64_MAX} ELSE {value}

\* main lines 363-371
DefaultArguments ==
    [targetPhi |-> M_PI \div 2, precision |-> 2, alpha |-> 2,
     numberOfEvidenceSamplesPerIteration |-> <<>>,
     numberOfPriorTestSamplesPerIteration |-> BigOfNat(1000),
     numberOfRepetitions |-> BigOfNat(1), verbose |-> FALSE]

\* the length of the command lines explored
MaxOptions == 3

\* what getopt can return together with optarg: ":" stands for an option
\* that lacks its argument and "?" for an unknown option
Options ==
    [opt : {"t"}, arg : {0, 2 * M_PI}] \cup
    [opt : {"p"}, arg : {0, 4, 10, 11}] \cup
    [opt : {"a"}, arg : {0, 1, 3}] \cup
    [opt : {"n"}, arg : {-1, 0, 5, 2000000}] \cup
    [opt : {"m"}, arg : {-5, 0, 3}] \cup
    [opt : {"r"}, arg : {-1, 0, 2}] \cup
    [opt : {"v", "h", ":", "?"}, arg : {0}]

CommandLines == UNION {[1..n -> Options] : n \in 0..MaxOptions}

\* the call of getCommandLineArguments, main line 387
InitArgs ==
    /\ argv \in CommandLines
    /\ optind = 1
    /\ parsed = DefaultArguments
    /\ userSpecifiedEvidenceNumber = FALSE
    /\ parsePc = "getopt"
    /\ returnValue = 0
    /\ reportedSamples = <<>>
    /\ reportFormula = "none"
    /\ arguments = CHOOSE c \in Configurations : TRUE
    /\ InitMain

NextOption(opt) ==
    /\ parsePc = "getopt"
    /\ optind <= Len(argv)
    /\ argv[optind].opt = opt
    /\ optind' = optind + 1

optarg == argv[optind].arg

Fail ==
    /\ returnValue' = 1
    /\ parsePc' = "returned"

\* case 't', lines 162-173
OptionT ==
    /\ NextOption("t")
    /\ parsed' = IF optarg < kMinimumPhi \/ optarg > kMaximumPhi
                 THEN parsed
                 ELSE [parsed EXCEPT !.targetPhi = optarg]
    /\ UNCHANGED <<driverVars, reportedSamples, reportFormula, argv, userSpecifiedEvidenceNumber, parsePc, returnValue>>

\* case 'p', lines 174-185: 10^-e is below 10^-10 when e is above 10
OptionP ==
    /\ NextOption("p")
    /\ parsed' = IF optarg > kMinimumPrecisionExponent
                     \/ optarg < kMaximumPrecisionExponent
                 THEN parsed
                 ELSE [parsed EXCEPT !.precision = optarg]
    /\ UNCHANGED <<driverVars, reportedSamples, reportFormula, argv, userSpecifiedEvidenceNumber, parsePc, returnValue>>

\* case 'a', lines 186-197
OptionA ==
    /\ NextOption("a")
    /\ parsed' = IF optarg < kMinimumAlpha \/ optarg > kMaximumAlpha
                 THEN parsed
                 ELSE [parsed EXCEPT !.alpha = optarg]
    /\ UNCHANGED <<driverVars, reportedSamples, reportFormula, argv, userSpecifiedEvidenceNumber, parsePc, returnValue>>

\* case 'n', lines 198-213
OptionN ==
    /\ NextOption("n")
    /\ IF optarg < 0
       THEN /\ Fail
            /\ UNCHANGED <<parsed, userSpecifiedEvidenceNumber>>
       ELSE /\ parsed' = [parsed EXCEPT
                            !.numberOfEvidenceSamplesPerIteration = ToUnsigned(optarg)]
            /\ userSpecifiedEvidenceNumber' = TRUE
            /\ UNCHANGED <<parsePc, returnValue>>
    /\ UNCHANGED <<driverVars, reportedSamples, reportFormula, argv>>

\* the test "<= 0" of a size_t, lines 218 and 231
NotPositive(count) == count = <<>>

\* case 'm', lines 214-226
OptionM ==
    /\ NextOption("m")
    /\ parsed' = [parsed EXCEPT
                    !.numberOfPriorTestSamplesPerIteration = ToUnsigned(optarg)]
    /\ IF NotPositive(parsed'.numberOfPriorTestSamplesPerIteration)
       THEN Fail
       ELSE UNCHANGED <<parsePc, returnValue>>
    /\ UNCHANGED <<driverVars, reportedSamples, reportFormula, argv, userSpecifiedEvidenceNumber>>

\* case 'r', lines 227-239
OptionR ==
    /\ NextOption("r")
    /\ parsed' = [parsed EXCEPT !.numberOfRepetitions = ToUnsigned(optarg)]
    /\ IF NotPositive(parsed'.numberOfRepetitions)
       THEN Fail
       ELSE UNCHANGED <<parsePc, returnValue>>
    /\ UNCHANGED <<driverVars, reportedSamples, reportFormula, argv, userSpecifiedEvidenceNumber>>

\* case 'v', lines 240-244
OptionV ==
    /\ NextOption("v")
    /\ parsed' = [parsed EXCEPT !.verbose = TRUE]
    /\ UNCHANGED <<driverVars, reportedSamples, reportFormula, argv, userSpecifiedEvidenceNumber, parsePc, returnValue>>

\* case 'h', lines 245-249: the program exits with status 0
OptionH ==
    /\ NextOption("h")
    /\ parsePc' = "exited"
    /\ UNCHANGED <<driverVars, reportedSamples, reportFormula, argv, parsed, userSpecifiedEvidenceNumber, returnValue>>

\* case ':', lines 250-257
MissingArgument ==
    /\ NextOption(":")
    /\ Fail
    /\ UNCHANGED <<driverVars, reportedSamples, reportFormula, argv, parsed, userSpecifiedEvidenceNumber>>

\* case '?', lines 258-264
InvalidOption ==
    /\ NextOption("?")
    /\ Fail
    /\ UNCHANGED <<driverVars, reportedSamples, reportFormula, argv, parsed, userSpecifiedEvidenceNumber>>

\* the test of the clamp, line 279
ExceedsMaximum(userSpecified, count) ==
    ~userSpecified /\ BigLess(kMaximumNumberOfEvidenceSamples, count)

\* lines 158, 268-285: no option is left; the number of evidence samples is
\* chosen when it is 0
ChooseEvidenceNumber ==
    /\ parsePc = "getopt"
    /\ optind > Len(argv)
    /\ IF parsed.numberOfEvidenceSamplesPerIteration = <<>>
       THEN \E converted \in ConvertToUint64(RequiredSamples(parsed.precision, parsed.alpha)) :
               parsed' = [parsed EXCEPT !.numberOfEvidenceSamplesPerIteration =
                            IF ExceedsMaximum(userSpecifiedEvidenceNumber, converted)
                            THEN kMaximumNumberOfEvidenceSamples
                            ELSE converted]
       ELSE UNCHANGED parsed
    /\ parsePc' = "chosen"
    /\ UNCHANGED <<driverVars, reportedSamples, reportFormula, argv, optind, userSpecifiedEvidenceNumber, returnValue>>

\* (uint64_t) of INT_MIN, and INT_MAX
IntMinAsUint64 == <<67968, 71562, 446744, 18>>
IntMax == BigOfNat(2147483647)

\* the conversion (int) of the double of line 299, then to uint64_t for
\* printing.  With alpha = 1 the double is (2 / 0) * (1 - 1) = inf * 0 = NaN;
\* the conversion of NaN and of a value above INT_MAX is undefined, and
\* builds give INT_MIN, or 0 for NaN and INT_MAX for a large value
PowerSamplesAsInt(e, h) ==
    IF h = 2 THEN {IntMinAsUint64, <<>>}
    ELSE IF BigLess(IntMax, PowerSamples(e, h)) THEN {IntMinAsUint64, IntMax}
    ELSE {PowerSamples(e, h)}

\* the test of the conditional expression of line 299: precision == 1.0
ReportsLogarithmic(precision, alpha) == precision = kMaximumPrecisionExponent

\* lines 287-301: the configuration is printed and 0 is returned
ReturnArguments ==
    /\ parsePc = "chosen"
    /\ IF ReportsLogarithmic(parsed.precision, parsed.alpha)
       THEN /\ reportFormula' = "logarithmic"
            /\ reportedSamples' \in ConvertToUint64(LogSamples(parsed.precision))
       ELSE /\ reportFormula' = "power"
            /\ reportedSamples' \in PowerSamplesAsInt(parsed.precision, parsed.alpha)
    /\ returnValue' = 0
    /\ parsePc' = "returned"
    /\ UNCHANGED <<driverVars, argv, optind, parsed, userSpecifiedEvidenceNumber>>

\* main lines 387-390: getCommandLineArguments returned 1 and main returns 1,
\* before the generator is allocated and before any experiment
MainReturnsFailure ==
    /\ parsePc = "returned"
    /\ returnValue # 0
    /\ pc = "main_for"
    /\ pc' = "exit_1"
    /\ UNCHANGED <<argsVars, arguments, mainVars, experimentVars, evidenceSampleCounts,
                   priorSamples, currentM, currentTheta, circuitVars, samplerVars,
                   numberOfAcceptedPriorSamples, historyVars, filterCalls>>

NextArgs ==
    \/ OptionT
    \/ OptionP
    \/ OptionA
    \/ OptionN
    \/ OptionM
    \/ OptionR
    \/ OptionV
    \/ OptionH
    \/ MissingArgument
    \/ InvalidOption
    \/ ChooseEvidenceNumber
    \/ ReturnArguments
    \/ MainReturnsFailure

SpecArgs == InitArgs /\ [][NextArgs]_vars

(***************************************************************************)
(*                  Properties of the driver                               *)
(***************************************************************************)
InExperiment == pc \in {"exp_for", "qpe_for", "sample_while", "rfpe", "exp_test", "exp_end"}

\* C1: an experiment reports convergence exactly when the deviation the
\* filter left is strictly below the precision at the end of an iteration;
\* at the first such iteration it stops with convergenceAchieved true, the
\* iteration count equal to the number of filter steps made (at least 1, at
\* most kMaxNumberOfIterations) and the estimate equal to that iteration's
\* mean; while it goes on, no earlier iteration had met the test.
C1_ConvergenceAtFirstPreciseIteration ==
    /\ (pc = "exp_end" =>
            /\ convergenceAchieved <=>
                 (~IsNaN(standardDeviation) /\ standardDeviation < arguments.precision)
            /\ convergenceAchieved =>
                 /\ convergenceIterationCount = filterCalls
                 /\ convergenceIterationCount \in 1..kMaxNumberOfIterations
                 /\ estimatedPhi = meanValue
            /\ ~convergenceAchieved => filterCalls = kMaxNumberOfIterations)
    /\ (pc \in {"exp_for", "qpe_for", "sample_while", "rfpe"} /\ filterCalls >= 1 =>
            /\ ~convergenceAchieved
            /\ ~(~IsNaN(standardDeviation) /\ standardDeviation < arguments.precision))

\* an experiment that converged at its second iteration is about to return
C1_ConvergedAtSecondIteration ==
    /\ pc = "exp_end"
    /\ convergenceAchieved
    /\ convergenceIterationCount = 2
    /\ estimatedPhi # 0

\* C2: every experiment terminates: whenever the sampler's loop is running,
\* a draw that it stores is possible, and the loop over the iterations makes
\* at most kMaxNumberOfIterations passes.
C2_ExperimentTerminates ==
    /\ (pc = "sample_while"
          /\ numberOfValidSamples < arguments.numberOfPriorTestSamplesPerIteration
        => \E g \in GaussianDraws(meanValue, standardDeviation) :
              ~IsNaN(g) /\ Abs(g) < M_PI)
    /\ (InExperiment => filterCalls <= kMaxNumberOfIterations)

\* C3: the deviation of the belief is never negative: it always compares
\* greater than or equal to 0.
C3_DeviationNeverNegative ==
    InExperiment => (~IsNaN(standardDeviation) /\ standardDeviation >= 0)

\* C4: when the filter accepts exactly one sample, the deviation it leaves
\* is exactly half of the deviation it was given.
C4_SingleAcceptedHalvesDeviation ==
    [][pc = "rfpe" /\ numberOfAcceptedPriorSamples' = 1
          => 2 * standardDeviation' = standardDeviation]_vars

\* the filter has just accepted one of two samples
C4_OneOfTwoAccepted ==
    /\ pc = "exp_test"
    /\ numberOfAcceptedPriorSamples = 1
    /\ Len(priorSamples) = 2
    /\ priorSamples[1] # priorSamples[2]
    /\ standardDeviation = M_PI \div 4

\* C5: the sampler hands over exactly numberOfPriorTestSamplesPerIteration
\* samples, each of magnitude strictly below pi, and never more; a draw of
\* magnitude pi or more is neither stored nor counted.
C5_SamplerFillsWithRestrictedSamples ==
    /\ [](pc \in {"sample_while", "rfpe"} =>
            /\ Len(priorSamples) = numberOfValidSamples
            /\ Len(priorSamples) <= arguments.numberOfPriorTestSamplesPerIteration
            /\ \A k \in 1..Len(priorSamples) :
                  ~IsNaN(priorSamples[k]) /\ Abs(priorSamples[k]) < M_PI)
    /\ [](pc = "rfpe" =>
            Len(priorSamples) = arguments.numberOfPriorTestSamplesPerIteration)
    /\ [][pc = "sample_while" /\ pc' = "sample_while"
            /\ (IsNaN(gaussianSample') \/ Abs(gaussianSample') >= M_PI)
          => UNCHANGED <<priorSamples, numberOfValidSamples>>]_vars

\* the sampler has stored one sample and has just rejected a draw of pi
C5_DrawRejectedAfterOneStored ==
    /\ pc = "sample_while"
    /\ gaussianSample = M_PI
    /\ numberOfValidSamples = 1
    /\ arguments.numberOfPriorTestSamplesPerIteration = 2

\* C6: runQPECircuit returns counts (n0, n1) with n0 + n1 = N and
\* 0 <= n0 <= N, where n0 is the number of the N uniform draws strictly
\* below the probability of 0; N = 0 gives (0, 0).
C6_CircuitCounts ==
    /\ [](pc = "qpe_for" =>
            /\ 0 <= evidenceSampleCounts[1]
            /\ evidenceSampleCounts[1] <= circuitI
            /\ circuitI <= arguments.numberOfEvidenceSamplesPerIteration)
    /\ [](pc \in {"sample_while", "rfpe", "exp_test"} =>
            /\ evidenceSampleCounts[1] + evidenceSampleCounts[2]
                 = arguments.numberOfEvidenceSamplesPerIteration
            /\ 0 <= evidenceSampleCounts[1]
            /\ evidenceSampleCounts[1] <= arguments.numberOfEvidenceSamplesPerIteration
            /\ (arguments.numberOfEvidenceSamplesPerIteration = 0
                  => evidenceSampleCounts = <<0, 0>>))
    /\ [][pc = "qpe_for" /\ pc' = "qpe_for" /\ circuitI' = circuitI + 1
          => evidenceSampleCounts'[1] =
               evidenceSampleCounts[1] +
               (IF ~IsNaN(probabilityEvidence0GivenPhiPrior)
                   /\ uniformSample' < probabilityEvidence0GivenPhiPrior
                THEN 1 ELSE 0)]_vars
    /\ [][pc = "qpe_for" /\ pc' = "sample_while"
          => /\ circuitI = arguments.numberOfEvidenceSamplesPerIteration
             /\ evidenceSampleCounts'[1] = evidenceSampleCounts[1]]_vars

\* the circuit has returned one 0 and one 1 out of two shots
C6_OneZeroOneOne ==
    /\ pc = "sample_while"
    /\ evidenceSampleCounts = <<1, 1>>

\* C7: the program runs exactly numberOfRepetitions experiments; an
\* experiment that did not converge does not stop the run; every experiment
\* starts from the mean 0 and the deviation pi/2.
C7_EveryRepetitionRunsFromThePrior ==
    /\ [](experimentsReturned <= arguments.numberOfRepetitions)
    /\ [](pc = "done" => experimentsReturned = arguments.numberOfRepetitions)
    /\ [](pc \in {"main_for", "done"} => experimentsReturned = mainI)
    /\ [][pc = "main_if" => pc' = "main_for"]_vars
    /\ [][pc = "main_for" /\ pc' = "exp_for"
          => meanValue' = 0 /\ standardDeviation' = M_PI \div 2]_vars
    /\ [](pc = "exp_for" /\ filterCalls = 0
          => meanValue = 0 /\ standardDeviation = M_PI \div 2)

\* the second experiment starts after a first one that did not converge
C7_SecondExperimentAfterExhausted ==
    /\ pc = "exp_for"
    /\ filterCalls = 0
    /\ experimentsReturned = 1
    /\ returnedConverged = 0
    /\ ~IsNaN(currentM)

\* C8: between experiments convergenceCount is the number of experiments
\* that returned true and wrongConvergenceCount the number of those whose
\* estimate lies further than xSigmaValue * precision from the target;
\* wrongConvergenceCount <= convergenceCount <= numberOfRepetitions; an
\* experiment that did not converge changes no aggregate.
C8_AggregatesCountConvergedExperiments ==
    /\ [](pc \in {"main_for", "done"} =>
            /\ convergenceCount = returnedConverged
            /\ wrongConvergenceCount = returnedWrong)
    /\ [](/\ wrongConvergenceCount <= convergenceCount
          /\ convergenceCount <= arguments.numberOfRepetitions)
    /\ [][pc = "main_if" /\ ~convergenceAchieved => UNCHANGED aggregates]_vars

\* two experiments converged, one of them wrongly
C8_OneWrongOfTwoConverged ==
    /\ pc = "main_for"
    /\ convergenceCount = 2
    /\ wrongConvergenceCount = 1

\* C11: the mean of the belief lies strictly inside (-pi, pi) throughout an
\* experiment: at the prior and after every call of doRFPE, whatever the
\* number of samples accepted.
C11_MeanInsideOpenInterval ==
    InExperiment => (~IsNaN(meanValue) /\ Abs(meanValue) < M_PI)

\* C13: in every iteration the circuit parameters are those of the belief
\* held at the start of the iteration (M = 1 when the deviation is 0, else
\* 1 / pow(deviation, alpha); theta = mean - deviation); the circuit and the
\* filter of the iteration read this same pair: runQPECircuit,
\* sampleFromRestrictedGaussian and doRFPE leave currentM and currentTheta
\* unchanged, also when doRFPE replaces the belief.
C13_CircuitParametersOfTheIteration ==
    /\ [](pc \in {"qpe_for", "sample_while", "rfpe"} =>
            /\ currentM = IF standardDeviation = 0 THEN MOne
                          ELSE InversePow(standardDeviation, arguments.alpha)
            /\ currentTheta = IF IsNaN(meanValue) \/ IsNaN(standardDeviation) THEN NaN
                              ELSE meanValue - standardDeviation)
    /\ [](pc = "qpe_for" =>
            probabilityEvidence0GivenPhiPrior =
                EvidenceZeroProbability(arguments.targetPhi, currentM, currentTheta))
    /\ [][(pc = "qpe_for" \/ pc = "sample_while" \/ pc = "rfpe")
          => UNCHANGED <<currentM, currentTheta>>]_vars
    /\ [][pc = "rfpe" /\ pc' = "exp_test" =>
            \E u \in [1..Len(priorSamples) -> UniformDraws] :
               LET after == doRFPE(priorSamples, evidenceSampleCounts,
                                   standardDeviation, u, currentM, currentTheta)
               IN  /\ meanValue' = after.meanValue
                   /\ standardDeviation' = after.standardDeviation]_vars

\* the filter of a second iteration has moved the belief away from the pair
\* (M, theta) it was given
C13_FilterMovedBeliefInSecondIteration ==
    /\ pc = "exp_test"
    /\ filterCalls = 2
    /\ arguments.alpha = 2
    /\ currentM # MOne
    /\ ~IsNaN(meanValue)
    /\ currentTheta # meanValue - standardDeviation

\* every prior sample has finite logarithms of both outcome probabilities
\* under the circuit parameters in use
FiniteLikelihoods ==
    \A i \in 1..Len(priorSamples) :
       LET q == EvidenceZeroProbability(priorSamples[i], currentM, currentTheta)
       IN  /\ ~IsNaN(q)
           /\ q > 0
           /\ q < ProbOne

\* C14: when doRFPE is given at least one prior sample and all the
\* log-likelihoods are finite, the two re-centering passes leave a largest
\* log-likelihood of exactly 0 and none above it, the best sample has the
\* weight 1 and passes every uniform draw of [0, 1), and so at least one
\* sample is accepted and the mean and the deviation are numbers.
C14_FiniteLikelihoodsAcceptASample ==
    /\ [](pc = "rfpe" /\ Len(priorSamples) >= 1 /\ FiniteLikelihoods =>
            LET L == LogEvidenceProbability(priorSamples, evidenceSampleCounts,
                                            currentM, currentTheta)
                w == EvidenceProbability(priorSamples, evidenceSampleCounts,
                                         currentM, currentTheta)
            IN  /\ \A i \in DOMAIN L : L[i] # NaN /\ L[i] # NegInf /\ L[i] <= 0
                /\ \E i \in DOMAIN L :
                      /\ L[i] = 0
                      /\ w[i] = ProbOne
                      /\ \A u \in UniformDraws : u <= w[i])
    /\ [][pc = "rfpe" /\ pc' = "exp_test" /\ Len(priorSamples) >= 1 /\ FiniteLikelihoods
          => /\ numberOfAcceptedPriorSamples' >= 1
             /\ ~IsNaN(meanValue')
             /\ ~IsNaN(standardDeviation')]_vars

\* the filter has accepted the best of two samples with finite
\* log-likelihoods and rejected the other
C14_BestOfTwoAccepted ==
    /\ pc = "exp_test"
    /\ Len(priorSamples) = 2
    /\ FiniteLikelihoods
    /\ numberOfAcceptedPriorSamples = 1
    /\ evidenceSampleCounts[1] + evidenceSampleCounts[2] = 2

(***************************************************************************)
(*               Properties of getCommandLineArguments                     *)
(***************************************************************************)
Accepted == parsePc = "returned" /\ returnValue = 0

\* C9: a number of evidence samples computed by the program that exceeds
\* kMaximumNumberOfEvidenceSamples is replaced by it when no -n was given;
\* a computed number that does not exceed it is kept; a positive number
\* given with -n is kept.
C9_ComputedNumberIsClamped ==
    [][parsePc = "getopt" /\ parsePc' = "chosen" =>
         LET given == parsed.numberOfEvidenceSamplesPerIteration
             required == RequiredSamples(parsed.precision, parsed.alpha)
             chosen == parsed'.numberOfEvidenceSamplesPerIteration
         IN  /\ (given = <<>> /\ ~userSpecifiedEvidenceNumber
                   /\ BigLess(BigOfNat(1000000), required)
                 => chosen = BigOfNat(1000000))
             /\ (given = <<>> /\ ~BigLess(BigOfNat(1000000), required)
                 => chosen = required)
             /\ (given # <<>> => chosen = given)]_vars

\* C10: a configuration that getCommandLineArguments accepts has at least
\* one evidence sample and at least one prior test sample per iteration.
C10_AcceptedCountsArePositive ==
    Accepted =>
        /\ parsed.numberOfEvidenceSamplesPerIteration # <<>>
        /\ parsed.numberOfPriorTestSamplesPerIteration # <<>>

\* C12: an invalid count is rejected: when the argument of -n is negative,
\* or the argument of -m or of -r is zero or negative,
\* getCommandLineArguments returns 1; main then returns 1 and no experiment
\* runs.
C12_InvalidCountsAreRejected ==
    /\ [][parsePc = "getopt" /\ optind <= Len(argv) /\ optind' = optind + 1
            /\ \/ (argv[optind].opt = "n" /\ argv[optind].arg < 0)
               \/ (argv[optind].opt \in {"m", "r"} /\ argv[optind].arg <= 0)
          => parsePc' = "returned" /\ returnValue' = 1]_vars
    /\ [][parsePc = "returned" /\ returnValue = 1 => pc' = "exit_1"]_vars
    /\ [](returnValue = 1 => pc \in {"main_for", "exit_1"} /\ experimentsReturned = 0)

\* C15: the number reported as "Required Quantum Circuit Samples (N)" comes
\* from the same formula as the computed number of evidence samples: the
\* logarithmic formula exactly when alpha is 1 and the power formula exactly
\* when it is not, so the power formula is never evaluated with alpha = 1.
C15_ReportUsesTheFormulaOfAlpha ==
    Accepted =>
        /\ reportFormula = "logarithmic" <=> parsed.alpha = 2
        /\ reportFormula = "power" <=> parsed.alpha # 2
        /\ ~(reportFormula = "power" /\ parsed.alpha = 2)

=============================================================================
